---- MODULE Spec2Model ----
(***************************************************************************)
(* A model of mdlayher/dhcp6: the Options container and its wire codec     *)
(* (Options.AddRaw / enumerate / Marshal / Unmarshal) and the server       *)
(* dispatch core (Server.ListenAndServe / Serve / conn.serve).             *)
(*                                                                         *)
(* Byte strings are sequences of naturals in 0..255.  An Options map is  *)
(* the set of its entries [Code, Vals], one per key present.  Three        *)
(* specifications share the variables:                                     *)
(*   SpecOptions  an Options value is built with AddRaw, marshalled        *)
(*                (possibly several times) and the bytes unmarshalled;     *)
(*   SpecParse    Options.Unmarshal applied to arbitrary input bytes;      *)
(*   Spec         the server: ListenAndServe, the read loop of Serve and   *)
(*                the goroutines running conn.serve.                       *)
(***************************************************************************)
EXTENDS Integers, Sequences, FiniteSets, TLC

VARIABLES
    \* ---- Options codec ----
    opts,       \* the Options map under construction
    goSort,     \* which sort.Sort implementation the Go toolchain links
    wire,       \* bytes produced by the latest Marshal of opts, if any
    wirePrev,   \* bytes produced by the Marshal before it (same opts), if any
    input,      \* bytes handed to Options.Unmarshal, if any
    parsed,     \* what Options.Unmarshal returned: [done, err, opts]
    \* ---- server ----
    lasPc,      \* position of ListenAndServe
    iface,      \* the interface net.InterfaceByName resolved
    ServerID,   \* s.ServerID
    ifIndex,    \* s.ifIndex
    sock,       \* the UDP6 packet connection: [state, cmFlag, members, fault];
                \* fault is the error a ReadFrom on it has returned
    joinLog,    \* groups for which JoinGroup succeeded, in order
    leaveLog,   \* groups for which LeaveGroup was called, in order
    retErr,     \* the error ListenAndServe returned
    buf,        \* the receive buffer of Serve, reused for every read
    nReads,     \* number of ReadFrom calls that returned a datagram
    droppedAt,  \* the reads (by number) whose datagram the filter discarded
    tasks,      \* the goroutines spawned by Serve, in spawn order
    sent,       \* datagrams written through conn.WriteTo: [task, n, req, p, addr]
    crashed,    \* an unrecovered panic has terminated the process
    panic,      \* the goroutine that panicked: its datagram, and whether its
                \* handler had been invoked
    \* ---- packets, DUIDs and option types ----
    val,        \* the value in memory (a Packet, an IAAddr, a DUID, ...), if any
    encoded,    \* its marshalled bytes, or bytes received from the wire, if any
    decoded     \* what the parser or constructor returned: [done, err, v]

codecVars  == <<opts, goSort, wire, wirePrev, input, parsed>>
serverVars == <<lasPc, iface, ServerID, ifIndex, sock, joinLog, leaveLog, retErr,
                buf, nReads, droppedAt, tasks, sent, crashed, panic>>
typeVars   == <<val, encoded, decoded>>
vars == <<opts, goSort, wire, wirePrev, input, parsed,
          lasPc, iface, ServerID, ifIndex, sock, joinLog, leaveLog, retErr,
          buf, nReads, droppedAt, tasks, sent, crashed, panic,
          val, encoded, decoded>>

Nil == "nil"

\* an optional byte string
NoBytes == [has |-> FALSE, b |-> <<>>]

SomeBytes(b) == [has |-> TRUE, b |-> b]

(***************************************************************************)
(* Bounds                                                                  *)
(***************************************************************************)
\* most (code, value) pairs held by the Options value of SpecOptions
MaxOpts == 7
\* longest input handed to Options.Unmarshal in SpecParse
MaxInputLen == 8
\* most datagrams the read loop of Serve receives
MaxReads == 2
\* most options a handler adds to its response
MaxRespOpts == 1
\* most calls of Send a handler makes for one request
MaxSends == 1
\* how many bytes of the 1500-byte receive buffer of Serve are modelled
BufLen == 8

\* option codes and option values the Options value is built from
Codes == {1, 2}
Values == {<<>>, <<7>>}
\* bytes the inputs of SpecParse are made of
InputBytes == {0, 1, 2}

(***************************************************************************)
(* Small helpers                                                           *)
(***************************************************************************)
Min(a, b) == IF a < b THEN a ELSE b

Drop(s, n) == SubSeq(s, n + 1, Len(s))

Take(s, n) == SubSeq(s, 1, n)

\* all sequences over S of length at most n
RECURSIVE SeqsUpTo(_, _)
SeqsUpTo(S, n) ==
    IF n = 0 THEN {<<>>}
    ELSE LET shorter == SeqsUpTo(S, n - 1)
         IN  shorter \cup {Append(s, x) : s \in {t \in shorter : Len(t) = n - 1}, x \in S}

\* the orders in which a range over a Go map with key set K may visit it
MapOrders(K) ==
    {s \in [1..Cardinality(K) -> K] : \A i, j \in 1..Cardinality(K) : i # j => s[i] # s[j]}

(***************************************************************************)
(* buffer: big-endian integers                                             *)
(***************************************************************************)
\* order.PutUint16 of a uint16
Write16(v) == << (v % 65536) \div 256, v % 256 >>

\* order.Uint16 of the first two bytes of b
Uint16(b) == b[1] * 256 + b[2]

\* buffer.Has
Has(data, n) == Len(data) >= n

\* Consume as bytes.Buffer.Next would do it: whatever is left, never Nil
ConsumeShort(data, n) ==
    [ok |-> TRUE, v |-> Take(data, Min(n, Len(data))), data |-> Drop(data, Min(n, Len(data)))]

\* buffer.Consume: the n bytes taken and the data left; ok is FALSE where
\* the code returns nil
Consume(data, n) ==
    IF ~Has(data, n) THEN [ok |-> FALSE, v |-> <<>>, data |-> data]
    ELSE [ok |-> TRUE, v |-> Take(data, n), data |-> Drop(data, n)]

(***************************************************************************)
(* Options                                                                 *)
(***************************************************************************)
EmptyOptions == {}

\* the keys present in o
Keys(o) == {e.Code : e \in o}

\* o[key], for a key that is present
ValuesAt(o, key) == (CHOOSE e \in o : e.Code = key).Vals

\* Options.AddRaw: o[key] = append(o[key], value)
AddRaw(o, key, value) ==
    IF key \in Keys(o)
    THEN {e \in o : e.Code # key} \cup {[Code |-> key, Vals |-> Append(ValuesAt(o, key), value)]}
    ELSE o \cup {[Code |-> key, Vals |-> <<value>>]}

\* number of values held by o
RECURSIVE CountValues(_)
CountValues(o) ==
    IF o = {} THEN 0
    ELSE LET e == CHOOSE x \in o : TRUE
         IN  Len(e.Vals) + CountValues(o \ {e})

\* the loops of enumerate: for k, v := range o { for _, vv := range v { append } }
RECURSIVE enumerateRange(_, _)
enumerateRange(o, order) ==
    IF order = <<>> THEN <<>>
    ELSE [i \in 1..Len(ValuesAt(o, Head(order))) |->
              [Code |-> Head(order), Data |-> ValuesAt(o, Head(order))[i]]]
         \o enumerateRange(o, Tail(order))

\* byOptionCode.Less
Less(b, i, j) == b[i].Code < b[j].Code

\* byOptionCode.Swap
Swap(b, i, j) == [b EXCEPT ![i] = b[j], ![j] = b[i]]

\* inner loop of sort.insertionSort: for j := i; j > a && Less(j, j-1); j--
RECURSIVE insertionSink(_, _)
insertionSink(b, j) ==
    IF j > 1 /\ Less(b, j, j - 1)
    THEN insertionSink(Swap(b, j, j - 1), j - 1)
    ELSE b

\* sort.insertionSort over the whole slice, from element i on
RECURSIVE insertionSort(_, _)
insertionSort(b, i) ==
    IF i > Len(b) THEN b
    ELSE insertionSort(insertionSink(b, i), i + 1)

\* the ShellSort pass with gap 6 of sort.quickSort (Go 1.6 to 1.18)
RECURSIVE shellPass(_, _)
shellPass(b, i) ==
    IF i > Len(b) THEN b
    ELSE shellPass(IF Less(b, i, i - 6) THEN Swap(b, i, i - 6) ELSE b, i + 1)

\* the sort.Sort implementations a build of the package can link, for slices
\* of at most 12 elements: insertion sort alone (Go up to 1.5 for n <= 7, and
\* pdqsort of Go 1.19 on) or a gap-6 pass followed by insertion sort.
SortImpls == {"insertion", "shell6"}

\* sort.Sort(byOptionCode(options)); sort.Sort is not guaranteed to be stable
sortSort(b, impl) ==
    IF Len(b) <= 1 THEN b
    ELSE IF impl = "shell6" THEN insertionSort(shellPass(b, 7), 2)
    ELSE insertionSort(b, 2)

\* Options.enumerate, for one iteration order of the map
enumerate(o, order, impl) == sortSort(enumerateRange(o, order), impl)

\* optslice.marshal: code, length, data of every option in turn
RECURSIVE marshal(_)
marshal(os) ==
    IF os = <<>> THEN <<>>
    ELSE Write16(Head(os).Code) \o Write16(Len(Head(os).Data)) \o Head(os).Data
         \o marshal(Tail(os))

\* Options.Marshal
Marshal(o, order, impl) == marshal(enumerate(o, order, impl))

\* the loop of Options.Unmarshal over the unread bytes b, filling o
RECURSIVE UnmarshalLoop(_, _)
UnmarshalLoop(b, o) ==
    IF Len(b) >= 4
    THEN LET code   == Uint16(b)
             length == Uint16(Drop(b, 2))
             rest   == Drop(b, 4)
         IN  IF length = 0 THEN UnmarshalLoop(rest, o)
             ELSE LET c == Consume(rest, length)
                  IN  IF ~c.ok THEN [done |-> TRUE, err |-> "ErrInvalidOptions", opts |-> o]
                      ELSE UnmarshalLoop(c.data, AddRaw(o, code, c.v))
    ELSE IF Len(b) # 0 THEN [done |-> TRUE, err |-> "ErrInvalidOptions", opts |-> o]
    ELSE [done |-> TRUE, err |-> Nil, opts |-> o]

\* Options.Unmarshal has not been called
NotParsed == [done |-> FALSE, err |-> Nil, opts |-> EmptyOptions]

\* Options.Unmarshal: *o = make(Options), then the loop
Unmarshal(b) == UnmarshalLoop(b, EmptyOptions)

(***************************************************************************)
(* The wire format, read independently of Options.Unmarshal                *)
(***************************************************************************)
\* the option records code:u16, length:u16, data[length] that b starts with
RECURSIVE WireRecords(_)
WireRecords(b) ==
    IF Len(b) < 4 \/ Uint16(Drop(b, 2)) > Len(b) - 4 THEN <<>>
    ELSE <<[Code |-> Uint16(b), Data |-> SubSeq(b, 5, 4 + Uint16(Drop(b, 2)))]>>
         \o WireRecords(Drop(b, 4 + Uint16(Drop(b, 2))))

\* what follows the complete records of b: nothing ("ok"), a record whose
\* declared length exceeds the bytes remaining ("truncated"), or fewer than
\* four left-over bytes ("trailing")
RECURSIVE WireClass(_)
WireClass(b) ==
    IF Len(b) = 0 THEN "ok"
    ELSE IF Len(b) < 4 THEN "trailing"
    ELSE IF Uint16(Drop(b, 2)) > Len(b) - 4 THEN "truncated"
    ELSE WireClass(Drop(b, 4 + Uint16(Drop(b, 2))))

\* the data of the records of b that carry code k, in wire order
RECURSIVE DataOf(_, _)
DataOf(rs, k) ==
    IF rs = <<>> THEN <<>>
    ELSE (IF Head(rs).Code = k THEN <<Head(rs).Data>> ELSE <<>>) \o DataOf(Tail(rs), k)

(***************************************************************************)
(* The server before ListenAndServe is called                              *)
(***************************************************************************)
SockNone == [state |-> "none", cmFlag |-> FALSE, members |-> {}, fault |-> Nil]

NoIface == [Index |-> 0, HardwareAddr |-> <<>>]

NoDUID == [Type |-> 0, HardwareType |-> 0, HardwareAddr |-> <<>>]

NoPanic == [has |-> FALSE, buf |-> <<>>, invoked |-> FALSE]

ServerIdle ==
    /\ lasPc = "idle"
    /\ iface = NoIface
    /\ ServerID = NoDUID
    /\ ifIndex = 0
    /\ sock = SockNone
    /\ joinLog = <<>>
    /\ leaveLog = <<>>
    /\ retErr = Nil
    /\ buf = <<>>
    /\ nReads = 0
    /\ droppedAt = {}
    /\ tasks = <<>>
    /\ sent = {}
    /\ crashed = FALSE
    /\ panic = NoPanic

NoValue == [kind |-> "none"]

NotDecoded == [done |-> FALSE, err |-> Nil, v |-> NoValue]

\* no bytes yet; from tells where bytes came from: a marshal call or the wire
NoEncoded == [has |-> FALSE, b |-> <<>>, from |-> "none"]

TypesIdle ==
    /\ val = NoValue
    /\ encoded = NoEncoded
    /\ decoded = NotDecoded

CodecIdle ==
    /\ opts = EmptyOptions
    /\ goSort = "insertion"
    /\ wire = NoBytes
    /\ wirePrev = NoBytes
    /\ input = NoBytes
    /\ parsed = NotParsed

(***************************************************************************)
(* SpecOptions: build an Options value, marshal it, unmarshal the bytes    *)
(***************************************************************************)
InitOptions ==
    /\ opts = EmptyOptions
    /\ goSort \in SortImpls
    /\ wire = NoBytes
    /\ wirePrev = NoBytes
    /\ input = NoBytes
    /\ parsed = NotParsed
    /\ ServerIdle
    /\ TypesIdle

\* o.AddRaw(key, value)
OptAddRaw ==
    /\ CountValues(opts) < MaxOpts
    /\ \E key \in Codes, value \in Values : opts' = AddRaw(opts, key, value)
    /\ wire' = NoBytes
    /\ wirePrev' = NoBytes
    /\ input' = NoBytes
    /\ parsed' = NotParsed
    /\ UNCHANGED goSort
    /\ UNCHANGED serverVars
    /\ UNCHANGED typeVars

\* o.Marshal(buf), the range over the map taking any of its orders
OptMarshal ==
    /\ \E order \in MapOrders(Keys(opts)) : wire' = SomeBytes(Marshal(opts, order, goSort))
    /\ wirePrev' = wire
    /\ input' = NoBytes
    /\ parsed' = NotParsed
    /\ UNCHANGED <<opts, goSort>>
    /\ UNCHANGED serverVars
    /\ UNCHANGED typeVars

\* a second Options value unmarshals the bytes just marshalled
OptUnmarshal ==
    /\ wire.has
    /\ ~parsed.done
    /\ input' = wire
    /\ parsed' = Unmarshal(wire.b)
    /\ UNCHANGED <<opts, goSort, wire, wirePrev>>
    /\ UNCHANGED serverVars
    /\ UNCHANGED typeVars

NextOptions ==
    \/ OptAddRaw
    \/ OptMarshal
    \/ OptUnmarshal

SpecOptions == InitOptions /\ [][NextOptions]_vars

(***************************************************************************)
(* SpecParse: Options.Unmarshal of arbitrary bytes                         *)
(***************************************************************************)
InitParse ==
    /\ opts = EmptyOptions
    /\ goSort = "insertion"
    /\ wire = NoBytes
    /\ wirePrev = NoBytes
    /\ input \in {SomeBytes(b) : b \in SeqsUpTo(InputBytes, MaxInputLen)}
    /\ parsed = NotParsed
    /\ ServerIdle
    /\ TypesIdle

\* o.Unmarshal(buf) on the input bytes
ParseUnmarshal ==
    /\ ~parsed.done
    /\ parsed' = Unmarshal(input.b)
    /\ UNCHANGED <<opts, goSort, wire, wirePrev, input>>
    /\ UNCHANGED serverVars
    /\ UNCHANGED typeVars

NextParse == ParseUnmarshal

SpecParse == InitParse /\ [][NextParse]_vars

(***************************************************************************)
(* Claims about the Options codec                                          *)
(***************************************************************************)
\* C1: unmarshalling the bytes produced by marshalling an Options value O
\* (valid codes, byte-string values, the empty value included) succeeds and
\* yields an Options value equal to O.
C1_RoundTrip ==
    (parsed.done /\ input = wire) => (parsed.err = Nil /\ parsed.opts = opts)

\* C7: when Options.Unmarshal reads a record whose length field is zero, the
\* resulting Options value contains that record's code with an empty value.
C7_ZeroLengthRecorded ==
    (parsed.done /\ parsed.err = Nil) =>
        \A i \in 1..Len(WireRecords(input.b)) :
            WireRecords(input.b)[i].Data = <<>> =>
                /\ WireRecords(input.b)[i].Code \in Keys(parsed.opts)
                /\ \E j \in 1..Len(ValuesAt(parsed.opts, WireRecords(input.b)[i].Code)) :
                       ValuesAt(parsed.opts, WireRecords(input.b)[i].Code)[j] = <<>>

\* C8: Options.Unmarshal fails with ErrInvalidOptions for every input in which
\* a record declares more data than remains, and for every input with bytes
\* left over after the last complete record.
C8_MalformedRejected ==
    (parsed.done /\ WireClass(input.b) # "ok") => parsed.err = "ErrInvalidOptions"

\* a record declaring more data than remains, after a complete record, has
\* been handed to Unmarshal and rejected
C8_Witness ==
    /\ parsed.done
    /\ WireClass(input.b) = "truncated"
    /\ Len(WireRecords(input.b)) = 1
    /\ parsed.err = "ErrInvalidOptions"

\* C9: in the marshalled bytes the values stored under one option code appear
\* in the order in which they were added to that code.
C9_InsertionOrderKept ==
    wire.has => \A k \in Keys(opts) : DataOf(WireRecords(wire.b), k) = ValuesAt(opts, k)

\* C10: marshalling the same unmodified Options value again yields the same
\* bytes, whatever order the map is iterated in.
C10_MarshalDeterministic ==
    wirePrev.has => wire = wirePrev

(***************************************************************************)
(* packet: a raw DHCPv6 packet, and the Request built from it              *)
(***************************************************************************)
MessageTypeSolicit == 1

MessageTypeAdvertise == 2

OptionPreference == 7

ethernet10Mb == 1

\* packet.MessageType
MessageType(p) == IF Len(p) = 0 THEN 0 ELSE p[1]

\* the transaction ID read one byte too early: p[0:3]
TransactionIDShifted(p) == IF Len(p) < 4 THEN <<>> ELSE SubSeq(p, 1, 3)

\* packet.TransactionID: p[1:4], or nil (the empty string here) if too short
TransactionID(p) == IF Len(p) < 4 THEN <<>> ELSE SubSeq(p, 2, 4)

\* the loop of the lenient parseOptions over the unread bytes b
RECURSIVE parseOptionsLoop(_, _)
parseOptionsLoop(b, options) ==
    IF Len(b) > 4
    THEN LET code   == Uint16(b)
             length == Uint16(Drop(b, 2))
             rest   == Drop(b, 4)
             data   == Take(rest, Min(length, Len(rest)))
             after  == Drop(rest, Min(length, Len(rest)))
         IN  IF length = 0 THEN parseOptionsLoop(rest, options)
             ELSE IF Len(data) < length THEN parseOptionsLoop(after, options)
             ELSE parseOptionsLoop(after, Append(options, [Code |-> code, Data |-> data]))
    ELSE options

\* parseOptions, as packet.Options uses it: malformed options are skipped
parseOptions(b) == parseOptionsLoop(b, <<>>)

\* packet.Options evaluates p[4:], which panics when p has fewer than 4 bytes
OptionsPanics(p) == Len(p) < 4

\* packet.Options
Options(p) == parseOptions(Drop(p, 4))

NoRequest ==
    [MessageType |-> 0, TransactionID |-> <<>>, Options |-> <<>>, Length |-> 0, RemoteAddr |-> ""]

\* newServerRequest, for a packet on which packet.Options does not panic
newServerRequest(p, remoteAddr) ==
    [MessageType   |-> MessageType(p),
     TransactionID |-> TransactionID(p),
     Options       |-> Options(p),
     Length        |-> Len(p),
     RemoteAddr    |-> remoteAddr]

\* optslice.write: code, length, data of every option in turn
RECURSIVE write(_)
write(os) ==
    IF os = <<>> THEN <<>>
    ELSE Write16(Head(os).Code) \o Write16(Len(Head(os).Data)) \o Head(os).Data
         \o write(Tail(os))

\* NewPacket accepting any transaction ID of at least 3 bytes
NewPacketAtLeast3(mt, txID, options, order, impl) ==
    IF Len(txID) < 3 THEN [err |-> "ErrInvalidTransactionID", p |-> <<>>]
    ELSE [err |-> Nil, p |-> <<mt % 256>> \o txID \o write(enumerate(options, order, impl))]

\* NewPacket
NewPacket(mt, txID, options, order, impl) ==
    IF Len(txID) # 3 THEN [err |-> "ErrInvalidTransactionID", p |-> <<>>]
    ELSE IF Cardinality(options) = 0 THEN [err |-> Nil, p |-> <<mt % 256>> \o txID]
    ELSE [err |-> Nil, p |-> <<mt % 256>> \o txID \o write(enumerate(options, order, impl))]

\* parsePacket succeeds: the datagram holds a message type and a transaction ID
Decodable(b) == Len(b) >= 4

(***************************************************************************)
(* The packet connection, as the server uses it                            *)
(***************************************************************************)
MulticastGroups == <<"ff02::1:2", "ff05::1:3">>

\* the hardware address of the interface
HardwareAddr == <<2, 0, 0, 0, 0, 1>>

\* the interface net.InterfaceByName finds for s.Iface
Iface == [Index |-> 1, HardwareAddr |-> HardwareAddr]

\* interface indexes a datagram can arrive on, and the server can be bound to
IfIndexes == {1, 2}

\* datagrams and the peers they come from: a Solicit without options, a
\* datagram of 3 bytes, a Solicit whose option declares one byte of data
\* and supplies none, and an Advertise
Datagrams ==
    { [data |-> <<1, 15, 0, 0>>,             addr |-> "[fe80::1]:546"],
      [data |-> <<1, 15, 0>>,                addr |-> "[fe80::1]:546"],
      [data |-> <<1, 1, 2, 3, 0, 1, 0, 1>>,  addr |-> "[fe80::2]:546"],
      [data |-> <<2, 15, 0, 0>>,             addr |-> "[fe80::2]:546"] }

\* the message types for which mux.Handle registered a handler before the
\* server started
HandledTypes == {MessageTypeSolicit}

\* a mux that finds a handler for every message type
RegisteredAny(mt) == TRUE

\* the lookup of ServeMux.ServeDHCP by request.MessageType
Registered(mt) == mt \in HandledTypes

DUIDTypeLLT == 1

DUIDTypeEN == 2

DUIDTypeLL == 3

DUIDTypeUUID == 4

\* a DUID the server was configured with
ConfiguredDUID == [Type |-> DUIDTypeLLT, HardwareType |-> 1, HardwareAddr |-> HardwareAddr]

\* NewDUIDLL
NewDUIDLL(hardwareType, hardwareAddr) ==
    [Type |-> DUIDTypeLL, HardwareType |-> hardwareType, HardwareAddr |-> hardwareAddr]

\* p.JoinGroup succeeding
JoinGroup(sk, g) == [sk EXCEPT !.members = @ \cup {g}]

\* p.LeaveGroup, its error ignored: it fails on a closed connection
LeaveGroup(sk, g) ==
    IF sk.state = "open" THEN [sk EXCEPT !.members = @ \ {g}] ELSE sk

\* conn.Close: the kernel drops the memberships of a socket that is closed
Close(sk) == [sk EXCEPT !.state = "closed", !.members = {}]

RECURSIVE LeaveGroups(_, _)
LeaveGroups(sk, gs) ==
    IF gs = <<>> THEN sk ELSE LeaveGroups(LeaveGroup(sk, Head(gs)), Tail(gs))

\* ListenAndServe returning without its deferred function
DeferredMissing(sk) == [sock |-> sk, leaves |-> <<>>]

\* the deferred function of ListenAndServe: leave every configured group,
\* then close the connection
Deferred(sk) ==
    [sock |-> Close(LeaveGroups(sk, MulticastGroups)), leaves |-> MulticastGroups]

\* the control message ReadFrom returns for a datagram that arrived on arr
ControlMessage(sk, arr) ==
    IF sk.cmFlag THEN [present |-> TRUE, IfIndex |-> arr]
    ELSE [present |-> FALSE, IfIndex |-> 0]

\* a read loop that filters nothing
FilterNothing(cm, idx) == FALSE

\* the filter of Serve: cm != nil && cm.IfIndex != s.ifIndex
Filtered(cm, idx) == cm.present /\ cm.IfIndex # idx

\* Server.newConn: the conn of one datagram, with its own copy of buf[:n];
\* arr and seq record the interface and the read the datagram came from
newConn(addr, n, b, arr, seq) ==
    [remoteAddr |-> addr,
     buf        |-> Take(b, n),
     arr        |-> arr,
     seq        |-> seq,
     pc         |-> "spawned",
     invoked    |-> FALSE,
     req        |-> NoRequest,
     options    |-> EmptyOptions,
     sends      |-> 0]

(***************************************************************************)
(* Spec: the server                                                        *)
(***************************************************************************)
\* the Server that ListenAndServe(iface, handler) constructs: both default
\* multicast groups and no ServerID.
\* (a response of this specification holds fewer options than the number from
\* which the sort.Sort implementations differ, so one of them is fixed)
Init ==
    /\ opts = EmptyOptions
    /\ goSort = "insertion"
    /\ wire = NoBytes
    /\ wirePrev = NoBytes
    /\ input = NoBytes
    /\ parsed = NotParsed
    /\ lasPc = "idle"
    /\ iface = NoIface
    /\ ServerID = NoDUID
    /\ ifIndex = 0
    /\ sock = SockNone
    /\ joinLog = <<>>
    /\ leaveLog = <<>>
    /\ retErr = Nil
    /\ buf = <<>>
    /\ nReads = 0
    /\ droppedAt = {}
    /\ tasks = <<>>
    /\ sent = {}
    /\ crashed = FALSE
    /\ panic = NoPanic
    /\ TypesIdle

\* a Server whose owner may have set a ServerID before calling ListenAndServe
InitServerID ==
    /\ opts = EmptyOptions
    /\ goSort = "insertion"
    /\ wire = NoBytes
    /\ wirePrev = NoBytes
    /\ input = NoBytes
    /\ parsed = NotParsed
    /\ lasPc = "idle"
    /\ iface = NoIface
    /\ ServerID \in {NoDUID, ConfiguredDUID}
    /\ ifIndex = 0
    /\ sock = SockNone
    /\ joinLog = <<>>
    /\ leaveLog = <<>>
    /\ retErr = Nil
    /\ buf = <<>>
    /\ nReads = 0
    /\ droppedAt = {}
    /\ tasks = <<>>
    /\ sent = {}
    /\ crashed = FALSE
    /\ panic = NoPanic
    /\ TypesIdle

\* ListenAndServe returns err before a connection was opened
ReturnEarly(err) ==
    /\ lasPc' = "returned"
    /\ retErr' = err
    /\ UNCHANGED <<sock, leaveLog>>

\* errors of ReadFrom
ReadErrors == {"read failed"}

\* a return that drops the error
ReturnNil(err, sk) ==
    /\ lasPc' = "returned"
    /\ retErr' = Nil
    /\ sock' = Deferred(sk).sock
    /\ leaveLog' = leaveLog \o Deferred(sk).leaves

\* ListenAndServe returns err and its deferred function runs on sk
Return(err, sk) ==
    /\ lasPc' = "returned"
    /\ retErr' = err
    /\ sock' = Deferred(sk).sock
    /\ leaveLog' = leaveLog \o Deferred(sk).leaves

\* a DUID-LL generated whether or not a ServerID was set
GenerateServerIDAlways(id, ifi) == NewDUIDLL(ethernet10Mb, ifi.HardwareAddr)

\* if s.ServerID == nil { s.ServerID = NewDUIDLL(ethernet10Mb, iface.HardwareAddr) }
GenerateServerID(id, ifi) ==
    IF id = NoDUID THEN NewDUIDLL(ethernet10Mb, ifi.HardwareAddr) ELSE id

\* net.InterfaceByName, then the generation of a DUID-LL if none was set
LasInterfaceByName ==
    /\ ~crashed
    /\ lasPc = "idle"
    /\ \/ /\ ReturnEarly("no such network interface")
          /\ UNCHANGED <<iface, ServerID>>
       \/ /\ iface' = Iface
          /\ ServerID' = GenerateServerID(ServerID, Iface)
          /\ lasPc' = "listen"
          /\ UNCHANGED <<sock, leaveLog, retErr>>
    /\ UNCHANGED <<ifIndex, joinLog, buf, nReads, droppedAt, tasks, sent, crashed, panic>>
    /\ UNCHANGED codecVars
    /\ UNCHANGED typeVars

\* net.ListenPacket("udp6", s.Addr) and the registration of the deferred function
LasListenPacket ==
    /\ ~crashed
    /\ lasPc = "listen"
    /\ \/ ReturnEarly("listen failed")
       \/ /\ sock' = [state |-> "open", cmFlag |-> FALSE, members |-> {}, fault |-> Nil]
          /\ lasPc' = "setcm"
          /\ UNCHANGED <<leaveLog, retErr>>
    /\ UNCHANGED <<iface, ServerID, ifIndex, joinLog, buf, nReads, droppedAt, tasks, sent, crashed, panic>>
    /\ UNCHANGED codecVars
    /\ UNCHANGED typeVars

\* p.SetControlMessage(ipv6.FlagInterface, true)
LasSetControlMessage ==
    /\ ~crashed
    /\ lasPc = "setcm"
    /\ \/ Return("set control message failed", sock)
       \/ /\ sock' = [sock EXCEPT !.cmFlag = TRUE]
          /\ lasPc' = "join"
          /\ UNCHANGED <<leaveLog, retErr>>
    /\ UNCHANGED <<iface, ServerID, ifIndex, joinLog, buf, nReads, droppedAt, tasks, sent, crashed, panic>>
    /\ UNCHANGED codecVars
    /\ UNCHANGED typeVars

\* one iteration of the loop over s.MulticastGroups: p.JoinGroup(iface, g)
LasJoinGroup ==
    /\ ~crashed
    /\ lasPc = "join"
    /\ Len(joinLog) < Len(MulticastGroups)
    /\ \/ /\ Return("join group failed", sock)
          /\ UNCHANGED joinLog
       \/ /\ sock' = JoinGroup(sock, MulticastGroups[Len(joinLog) + 1])
          /\ joinLog' = Append(joinLog, MulticastGroups[Len(joinLog) + 1])
          /\ UNCHANGED <<lasPc, leaveLog, retErr>>
    /\ UNCHANGED <<iface, ServerID, ifIndex, buf, nReads, droppedAt, tasks, sent, crashed, panic>>
    /\ UNCHANGED codecVars
    /\ UNCHANGED typeVars

\* s.ifIndex = iface.Index; s.Serve(p) allocates its buffer and starts to loop
LasServe ==
    /\ ~crashed
    /\ lasPc = "join"
    /\ Len(joinLog) = Len(MulticastGroups)
    /\ ifIndex' = iface.Index
    /\ buf' = [i \in 1..BufLen |-> 0]
    /\ lasPc' = "serve"
    /\ UNCHANGED <<iface, ServerID, sock, joinLog, leaveLog, retErr, nReads, droppedAt, tasks, sent, crashed, panic>>
    /\ UNCHANGED codecVars
    /\ UNCHANGED typeVars

\* conns whose buf is a slice of the receive buffer: a read overwrites the
\* bytes of every conn still held
AfterReadAliased(ts, b) == [t \in DOMAIN ts |-> [ts[t] EXCEPT !.buf = Take(b, Len(@))]]

\* the conns already created, once ReadFrom has filled the receive buffer
\* with b: newConn gave each its own copy, so they are as they were
AfterRead(ts, b) == ts

\* uc.serve() called twice for one conn
SpawnTwice(ts, c) == Append(Append(ts, c), c)

\* go uc.serve(): one goroutine for the conn
Spawn(ts, c) == Append(ts, c)

\* uc.serve() called without go: the loop reads again only when every
\* conn has been served
LoopWaitsForHandlers(ts) == \E t \in DOMAIN ts : ts[t].pc # "done"

\* whether the loop of Serve waits for the conns it has spawned before it
\* reads again: it does not, uc.serve runs in a goroutine of its own
LoopWaits(ts) == FALSE

\* one iteration of the loop of Serve whose ReadFrom returns a datagram: the
\* filter, newConn and go uc.serve()
ServeRead ==
    /\ ~crashed
    /\ lasPc = "serve"
    /\ nReads < MaxReads
    /\ ~LoopWaits(tasks)
    /\ \E d \in Datagrams, arr \in IfIndexes :
         LET n == Min(Len(d.data), Len(buf))
             b == Take(d.data, n) \o Drop(buf, n)
         IN  /\ buf' = b
             /\ nReads' = nReads + 1
             /\ IF Filtered(ControlMessage(sock, arr), ifIndex)
                THEN /\ droppedAt' = droppedAt \cup {nReads + 1}
                     /\ tasks' = AfterRead(tasks, b)
                ELSE /\ tasks' = Spawn(AfterRead(tasks, b), newConn(d.addr, n, b, arr, nReads + 1))
                     /\ UNCHANGED droppedAt
    /\ UNCHANGED <<lasPc, iface, ServerID, ifIndex, sock, joinLog, leaveLog, retErr, sent, crashed, panic>>
    /\ UNCHANGED codecVars
    /\ UNCHANGED typeVars

\* ReadFrom returns an error: Serve returns it, its deferred p.Close() runs,
\* and ListenAndServe returns it in turn
ServeReadError ==
    /\ ~crashed
    /\ lasPc = "serve"
    /\ \E e \in ReadErrors : Return(e, Close([sock EXCEPT !.fault = e]))
    /\ UNCHANGED <<iface, ServerID, ifIndex, joinLog, buf, nReads, droppedAt, tasks, sent, crashed, panic>>
    /\ UNCHANGED codecVars
    /\ UNCHANGED typeVars

\* a panic in goroutine t that nothing recovers: the Go runtime terminates the
\* process, with it every goroutine and the receive buffer, and the kernel
\* closes the socket
Panic(t) ==
    /\ crashed' = TRUE
    /\ panic' = [has |-> TRUE, buf |-> tasks[t].buf, invoked |-> tasks[t].invoked]
    /\ tasks' = <<>>
    /\ buf' = <<>>
    /\ lasPc' = "exited"
    /\ sock' = IF sock.state = "open" THEN Close(sock) ELSE sock

\* conn.serve up to the call of the handler: packet(c.buf), newServerRequest,
\* the response, and the dispatch of the mux by message type.  packet.Options
\* panics on a datagram shorter than 4 bytes, and conn.serve recovers nothing.
\* The mux does nothing for a message type without a handler.
ConnServe(t) ==
    /\ ~crashed
    /\ tasks[t].pc = "spawned"
    /\ IF OptionsPanics(tasks[t].buf)
       THEN Panic(t)
       ELSE /\ tasks' = IF Registered(MessageType(tasks[t].buf))
                        THEN [tasks EXCEPT ![t].pc = "handler",
                                           ![t].invoked = TRUE,
                                           ![t].req = newServerRequest(tasks[t].buf, tasks[t].remoteAddr)]
                        ELSE [tasks EXCEPT ![t].pc = "done"]
            /\ UNCHANGED <<crashed, panic, buf, lasPc, sock>>
    /\ UNCHANGED <<iface, ServerID, ifIndex, joinLog, leaveLog, retErr, nReads, droppedAt, sent>>
    /\ UNCHANGED codecVars
    /\ UNCHANGED typeVars

\* datagrams that share their bytes with the options map of response t: an
\* option added to the map shows up in what was transmitted
AfterAddAliased(t) ==
    { IF m.task = t
      THEN [m EXCEPT !.p = @ \o write(<<[Code |-> OptionPreference, Data |-> <<255>>]>>)]
      ELSE m : m \in sent }

\* the datagrams written, once the options map of response t was changed:
\* Send marshalled its own bytes, so a change after Send has no effect
AfterAdd(t) == sent

\* the handler adds an option to the options of its response:
\* w.Options().Add(OptionPreference, Preference(255))
HandlerAddOption(t) ==
    /\ ~crashed
    /\ tasks[t].pc = "handler"
    /\ CountValues(tasks[t].options) < MaxRespOpts
    /\ tasks' = [tasks EXCEPT ![t].options = AddRaw(@, OptionPreference, <<255>>)]
    /\ sent' = AfterAdd(t)
    /\ UNCHANGED <<lasPc, iface, ServerID, ifIndex, sock, joinLog, leaveLog, retErr, buf, nReads, droppedAt, crashed, panic>>
    /\ UNCHANGED codecVars
    /\ UNCHANGED typeVars

\* a write to the address of the conn created last, as a remote address kept
\* in one place for all requests would give
WriteToLatest(t, p) ==
    IF sock.state = "open"
    THEN sent \cup {[task |-> t, n |-> tasks[t].sends + 1, req |-> tasks[t].buf,
                      p |-> p, addr |-> tasks[Len(tasks)].remoteAddr]}
    ELSE sent

\* response.Write: r.conn.WriteTo(p, nil, r.remoteAddr); the write fails on a
\* closed connection
Write(t, p) ==
    IF sock.state = "open"
    THEN sent \cup {[task |-> t, n |-> tasks[t].sends + 1, req |-> tasks[t].buf,
                      p |-> p, addr |-> tasks[t].remoteAddr]}
    ELSE sent

\* Send: a Packet of the given message type, the transaction ID of the
\* request and the options of the response is built and written
Send(t, mt, order) ==
    LET r == NewPacket(mt, tasks[t].req.TransactionID, tasks[t].options, order, goSort)
    IN  IF r.err # Nil THEN sent ELSE Write(t, r.p)

\* the handler calls w.Send(MessageTypeAdvertise)
HandlerSend(t) ==
    /\ ~crashed
    /\ tasks[t].pc = "handler"
    /\ tasks[t].sends < MaxSends
    /\ \E order \in MapOrders(Keys(tasks[t].options)) :
           sent' = Send(t, MessageTypeAdvertise, order)
    /\ tasks' = [tasks EXCEPT ![t].sends = @ + 1]
    /\ UNCHANGED <<lasPc, iface, ServerID, ifIndex, sock, joinLog, leaveLog, retErr, buf, nReads, droppedAt, crashed, panic>>
    /\ UNCHANGED codecVars
    /\ UNCHANGED typeVars

\* the handler returns, and conn.serve with it: the response is dropped
HandlerReturn(t) ==
    /\ ~crashed
    /\ tasks[t].pc = "handler"
    /\ tasks' = [tasks EXCEPT ![t].pc = "done",
                              ![t].options = EmptyOptions,
                              ![t].sends = 0]
    /\ UNCHANGED <<lasPc, iface, ServerID, ifIndex, sock, joinLog, leaveLog, retErr, buf, nReads, droppedAt, sent, crashed, panic>>
    /\ UNCHANGED codecVars
    /\ UNCHANGED typeVars

\* the handler panics, and conn.serve recovers nothing
HandlerPanic(t) ==
    /\ ~crashed
    /\ tasks[t].pc = "handler"
    /\ Panic(t)
    /\ UNCHANGED <<iface, ServerID, ifIndex, joinLog, leaveLog, retErr, nReads, droppedAt, sent>>
    /\ UNCHANGED codecVars
    /\ UNCHANGED typeVars

Next ==
    \/ LasInterfaceByName
    \/ LasListenPacket
    \/ LasSetControlMessage
    \/ LasJoinGroup
    \/ LasServe
    \/ ServeRead
    \/ ServeReadError
    \/ \E t \in 1..Len(tasks) : ConnServe(t)
    \/ \E t \in 1..Len(tasks) : HandlerAddOption(t)
    \/ \E t \in 1..Len(tasks) : HandlerSend(t)
    \/ \E t \in 1..Len(tasks) : HandlerReturn(t)
    \/ \E t \in 1..Len(tasks) : HandlerPanic(t)

Spec == Init /\ [][Next]_vars

SpecServerID == InitServerID /\ [][Next]_vars

(***************************************************************************)
(* Claims about the server                                                 *)
(***************************************************************************)
\* C2: every reply transmitted by Send for a request carries the 3-byte
\* transaction ID of that request's datagram.
C2_ReplyCarriesTransactionID ==
    \A m \in sent :
        /\ Len(m.p) >= 4
        /\ Len(m.req) >= 4
        /\ SubSeq(m.p, 2, 4) = SubSeq(m.req, 2, 4)

\* a reply has been transmitted for a request
C2_Witness ==
    \E m \in sent : m.p = <<MessageTypeAdvertise, 15, 0, 0>> /\ m.req = <<1, 15, 0, 0>>

\* C3: no datagram that arrived on another interface than the configured one
\* is passed to a handler: the read loop drops it and goes on reading.
C3_OtherInterfaceDropped ==
    \A t \in 1..Len(tasks) : tasks[t].arr = ifIndex

\* a datagram from another interface was dropped and a later datagram reached
\* its handler
C3_Witness ==
    \E d \in droppedAt : \E t \in 1..Len(tasks) : tasks[t].seq > d /\ tasks[t].invoked

\* C4: a datagram that cannot be unmarshalled into a Packet is discarded: no
\* handler is invoked for it, nothing is transmitted for it, and the serve
\* loop keeps reading.
C4_UndecodableDiscarded ==
    LET unmarshals(b) == Decodable(b) /\ Unmarshal(Drop(b, 4)).err = Nil
    IN  /\ \A t \in 1..Len(tasks) : ~unmarshals(tasks[t].buf) => ~tasks[t].invoked
        /\ \A m \in sent : unmarshals(m.req)
        /\ panic.has => unmarshals(panic.buf)

\* C5: a panic raised inside a handler is confined to that request's task: the
\* serve loop does not terminate.
C5_HandlerPanicConfined ==
    (panic.has /\ panic.invoked) => ~crashed

\* C6: whenever ListenAndServe has returned after the packet connection was
\* opened, every multicast group that was joined has been left and the
\* connection has been closed.
C6_CleanupOnReturn ==
    (lasPc = "returned" /\ sock.state # "none") =>
        /\ sock.state = "closed"
        /\ sock.members = {}
        /\ \A i \in 1..Len(joinLog) : \E j \in 1..Len(leaveLog) : leaveLog[j] = joinLog[i]

\* ListenAndServe has returned a read error of the serve loop after joining
\* every group
C6_Witness ==
    /\ lasPc = "returned"
    /\ retErr \in ReadErrors
    /\ Len(joinLog) = Len(MulticastGroups)
    /\ sock.state = "closed"

\* the conns created for the datagram of the read numbered s
TasksOf(s) == {t \in 1..Len(tasks) : tasks[t].seq = s}

\* C28: while the server runs, every datagram that passes the interface
\* filter has exactly one per-request task and a filtered one has none, and a
\* task's handler is invoked at most once: it is entered only from a task
\* just spawned whose handler was not invoked, and a finished task stays
\* finished.
C28_OneTaskPerDatagram ==
    /\ [](~crashed =>
             \A s \in 1..nReads :
                 Cardinality(TasksOf(s)) = IF s \in droppedAt THEN 0 ELSE 1)
    /\ [][\A t \in 1..Len(tasks) :
             Len(tasks') >= t =>
                 /\ (tasks'[t].pc = "handler" /\ tasks[t].pc # "handler") =>
                        (tasks[t].pc = "spawned" /\ ~tasks[t].invoked)
                 /\ tasks[t].pc = "done" => tasks'[t].pc = "done"
                 /\ tasks[t].invoked => tasks'[t].invoked
                 /\ tasks'[t].seq = tasks[t].seq]_vars

\* one read was filtered out, and the handler of an accepted one has run and
\* returned
C28_Witness ==
    /\ ~crashed
    /\ droppedAt # {}
    /\ \E t \in 1..Len(tasks) : tasks[t].invoked /\ tasks[t].pc = "done"

\* C29: ListenAndServe issues a leave only for multicast groups it joined: if
\* joining the k-th configured group fails, no leave is issued for that group
\* or for any group after it.
C29_LeavesOnlyJoined ==
    \A i \in 1..Len(leaveLog) : \E j \in 1..Len(joinLog) : joinLog[j] = leaveLog[i]

\* C13: a request whose message type has no registered handler runs no
\* handler and has nothing transmitted for it, while a handler is registered
\* for another message type.
C13_NoHandlerNoReply ==
    /\ \A t \in 1..Len(tasks) :
           (~OptionsPanics(tasks[t].buf) /\ MessageType(tasks[t].buf) \notin HandledTypes) =>
               /\ ~tasks[t].invoked
               /\ tasks[t].pc \in {"spawned", "done"}
    /\ \A m \in sent : MessageType(m.req) \in HandledTypes

\* the mux has served an Advertise, for which nothing is registered, and a
\* Solicit, whose handler has replied
C13_Witness ==
    /\ \E t \in 1..Len(tasks) : tasks[t].buf = <<2, 15, 0, 0>> /\ tasks[t].pc = "done"
    /\ \E m \in sent : MessageType(m.req) = MessageTypeSolicit

\* C14: once Send was called on a response, a later change of its options
\* map alters no datagram that was transmitted and transmits nothing more.
C14_ChangeAfterSendNoEffect ==
    [][\A t \in 1..Len(tasks) :
          (/\ Len(tasks') >= t
           /\ tasks[t].sends > 0
           /\ tasks'[t].pc = "handler"
           /\ tasks'[t].options # tasks[t].options) => sent' = sent]_vars

\* a handler has sent a reply without options and added an option afterwards
C14_Witness ==
    \E m \in sent :
        /\ m.task \in 1..Len(tasks)
        /\ tasks[m.task].pc = "handler"
        /\ Len(m.p) = 4
        /\ CountValues(tasks[m.task].options) > 0

\* C15: every reply is written to the remote address of the request it
\* answers, also while requests of different peers are served concurrently.
C15_ReplyToRequestPeer ==
    \A m \in sent : \E d \in Datagrams : d.data = m.req /\ d.addr = m.addr

\* the handlers of two requests from different peers are running, and one of
\* them has replied
C15_Witness ==
    \E t1, t2 \in 1..Len(tasks) :
        /\ tasks[t1].pc = "handler"
        /\ tasks[t2].pc = "handler"
        /\ tasks[t1].remoteAddr # tasks[t2].remoteAddr
        /\ \E m \in sent : m.task = t1

\* C16: once a read on the packet connection has returned an error, the serve
\* loop has returned exactly that error, and it reads no further datagram and
\* spawns no further task.
C16_ReadErrorEndsLoop ==
    /\ [](sock.fault # Nil => (lasPc \in {"returned", "exited"} /\ retErr = sock.fault))
    /\ [][sock.fault # Nil => (nReads' = nReads /\ Len(tasks') <= Len(tasks))]_vars

\* a read has failed after datagrams were read, while a task is still running
C16_Witness ==
    /\ sock.fault # Nil
    /\ nReads > 0
    /\ \E t \in 1..Len(tasks) : tasks[t].pc = "handler"

\* C22: the bytes a per-request task decodes are the first n bytes of the
\* datagram that spawned it, and stay so however many datagrams the read
\* loop reads into its receive buffer afterwards.
C22_TaskBufferIsolated ==
    [][/\ \A t \in 1..Len(tasks) : Len(tasks') >= t => tasks'[t].buf = tasks[t].buf
       /\ Len(tasks') > Len(tasks) =>
              \E d \in Datagrams :
                  LET n == Min(Len(d.data), BufLen)
                  IN  /\ tasks'[Len(tasks')].buf = Take(d.data, n)
                      /\ Take(buf', n) = Take(d.data, n)]_vars

\* a task is still running while the receive buffer holds a later datagram
C22_Witness ==
    \E t \in 1..Len(tasks) :
        /\ tasks[t].pc = "handler"
        /\ tasks[t].seq < nReads
        /\ Take(buf, Len(tasks[t].buf)) # tasks[t].buf

\* C23: the read loop does not wait for the handlers of the tasks it has
\* spawned: while it is serving and has reads left, the next read can take
\* place, and every spawned task can be dispatched, whatever the other
\* tasks are doing.
C23_LoopDoesNotWait ==
    (~crashed /\ lasPc = "serve") =>
        /\ nReads < MaxReads => ENABLED ServeRead
        /\ \A t \in 1..Len(tasks) : tasks[t].pc = "spawned" => ENABLED ConnServe(t)

\* a later datagram was read and dispatched while the handler of an earlier
\* one has not returned
C23_Witness ==
    \E t, u \in 1..Len(tasks) :
        /\ tasks[t].seq < tasks[u].seq
        /\ tasks[t].pc = "handler"
        /\ tasks[u].pc = "handler"

\* C24: the server DUID is assigned at most once, by ListenAndServe before
\* the serve loop starts and only when none was configured; afterwards it
\* never changes, and the serve loop never runs without one.
C24_ServerIDWrittenOnce ==
    /\ [](lasPc = "serve" => ServerID # NoDUID)
    /\ [][ServerID' # ServerID =>
              /\ ServerID = NoDUID
              /\ lasPc = "idle"
              /\ ServerID' = NewDUIDLL(ethernet10Mb, iface'.HardwareAddr)]_vars

\* a server with a configured DUID serves a request with that DUID
C24_Witness ==
    /\ ServerID = ConfiguredDUID
    /\ \E t \in 1..Len(tasks) : tasks[t].pc = "handler"

(***************************************************************************)
(* SpecPacket: the Packet struct, Packet.Bytes and parsePacket             *)
(***************************************************************************)
\* the number of option values put into a Packet
MaxPktOpts == 2

\* the longest byte string handed to parsePacket
MaxPktLen == 6

\* transaction IDs of the packets built
TxIDs == {<<1, 2, 3>>, <<0, 0, 0>>}

\* Packet{MessageType, TransactionID, Options}
Packet(mt, txID, options) ==
    [kind |-> "Packet", MessageType |-> mt, TransactionID |-> txID, Options |-> options]

\* Packet.Bytes: message type, transaction ID, then the enumerated options
PacketBytes(p, order, impl) ==
    <<p.MessageType % 256>> \o p.TransactionID \o write(enumerate(p.Options, order, impl))

\* the Options map parseOptions hands to parsePacket: the options the lenient
\* loop kept, each added under its code
RECURSIVE optionsMap(_, _)
optionsMap(os, o) ==
    IF os = <<>> THEN o
    ELSE optionsMap(Tail(os), AddRaw(o, Head(os).Code, Head(os).Data))

\* parsePacket
parsePacket(b) ==
    IF Len(b) < 4
    THEN [done |-> TRUE, err |-> "errInvalidPacket", v |-> NoValue]
    ELSE [done |-> TRUE, err |-> Nil,
          v |-> Packet(b[1], SubSeq(b, 2, 4), optionsMap(parseOptions(Drop(b, 4)), EmptyOptions))]

InitPacket ==
    /\ opts = EmptyOptions
    /\ goSort \in SortImpls
    /\ wire = NoBytes
    /\ wirePrev = NoBytes
    /\ input = NoBytes
    /\ parsed = NotParsed
    /\ ServerIdle
    /\ val \in {Packet(MessageTypeSolicit, txID, EmptyOptions) : txID \in TxIDs}
    /\ encoded = NoEncoded
    /\ decoded = NotDecoded

\* p.Options.AddRaw(key, value)
PktAddRaw ==
    /\ encoded.from # "wire"
    /\ CountValues(val.Options) < MaxPktOpts
    /\ \E key \in Codes, value \in Values :
           val' = [val EXCEPT !.Options = AddRaw(@, key, value)]
    /\ encoded' = NoEncoded
    /\ decoded' = NotDecoded
    /\ UNCHANGED <<codecVars, serverVars>>

\* p.Bytes()
PktBytes ==
    /\ encoded.from # "wire"
    /\ \E order \in MapOrders(Keys(val.Options)) :
           encoded' = [has |-> TRUE, b |-> PacketBytes(val, order, goSort), from |-> "Bytes"]
    /\ decoded' = NotDecoded
    /\ UNCHANGED <<val, codecVars, serverVars>>

\* bytes arrive from the wire, at a process that has built no packet
PktReceive ==
    /\ ~encoded.has
    /\ val.Options = EmptyOptions
    /\ \E b \in SeqsUpTo(InputBytes, MaxPktLen) :
           encoded' = [has |-> TRUE, b |-> b, from |-> "wire"]
    /\ decoded' = NotDecoded
    /\ UNCHANGED <<val, codecVars, serverVars>>

\* parsePacket(b)
PktParse ==
    /\ encoded.has
    /\ ~decoded.done
    /\ decoded' = parsePacket(encoded.b)
    /\ UNCHANGED <<val, encoded, codecVars, serverVars>>

NextPacket ==
    \/ PktAddRaw
    \/ PktBytes
    \/ PktReceive
    \/ PktParse

SpecPacket == InitPacket /\ [][NextPacket]_vars

\* C11: parsing the bytes that Packet.Bytes produced for a packet yields a
\* packet equal to it in message type, transaction ID and options.
C11_PacketRoundTrip ==
    (decoded.done /\ encoded.from = "Bytes") =>
        /\ decoded.err = Nil
        /\ decoded.v = val

\* C12: parsing a byte string as a Packet fails with InvalidPacket whenever it
\* is shorter than 4 bytes, and whenever the bytes after the 4-byte header are
\* not well-formed options (truncated option data or trailing bytes).
C12_MalformedPacketRejected ==
    (decoded.done /\ (Len(encoded.b) < 4 \/ WireClass(Drop(encoded.b, 4)) # "ok")) =>
        decoded.err = "errInvalidPacket"

(***************************************************************************)
(* SpecIA: IAAddr and IAPrefix, their constructors, Bytes and parsers      *)
(***************************************************************************)
\* binary.BigEndian.PutUint32(b, uint32(v)): the low 32 bits of v
PutUint32(v) ==
    <<(v \div 16777216) % 256, (v \div 65536) % 256, (v \div 256) % 256, v % 256>>

\* binary.BigEndian.Uint32(b)
BEUint32(b) == ((b[1] * 256 + b[2]) * 256 + b[3]) * 256 + b[4]

\* the IPv6 address 2001:db8:: and the IPv4 address 192.168.1.1
IPv6Addr == <<32, 1, 13, 184>> \o [i \in 1..12 |-> 0]

IPv4Addr == <<192, 168, 1, 1>>

IPs == {IPv6Addr, IPv4Addr}

\* ip.To4() != nil: a 4-byte address, or a 16-byte IPv4-mapped one
IsIPv4(ip) ==
    \/ Len(ip) = 4
    \/ /\ Len(ip) = 16
       /\ \A i \in 1..10 : ip[i] = 0
       /\ ip[11] = 255
       /\ ip[12] = 255

\* copy(b[0:16], ip) into a zeroed slice
Copy16(ip) == Take(ip \o [i \in 1..16 |-> 0], 16)

IAAddr(ip, preferred, valid, options) ==
    [kind |-> "IAAddr", IP |-> ip, PreferredLifetime |-> preferred,
     ValidLifetime |-> valid, Options |-> options]

IAPrefix(preferred, valid, prefixLength, prefix, options) ==
    [kind |-> "IAPrefix", PreferredLifetime |-> preferred, ValidLifetime |-> valid,
     PrefixLength |-> prefixLength, Prefix |-> prefix, Options |-> options]

Failed(err) == [done |-> TRUE, err |-> err, v |-> NoValue]

Returned(v) == [done |-> TRUE, err |-> Nil, v |-> v]

\* NewIAAddr: the address is checked first, then the lifetimes
NewIAAddr(ip, preferred, valid, options) ==
    IF IsIPv4(ip) THEN Failed("ErrInvalidIAAddrIP")
    ELSE IF preferred > valid THEN Failed("ErrInvalidIAAddrLifetimes")
    ELSE Returned(IAAddr(ip, preferred, valid, options))

\* NewIAPrefix: the lifetimes are checked first, then the prefix
NewIAPrefix(preferred, valid, prefixLength, prefix, options) ==
    IF preferred > valid THEN Failed("ErrInvalidLifetimes")
    ELSE IF IsIPv4(prefix) THEN Failed("ErrInvalidIP")
    ELSE Returned(IAPrefix(preferred, valid, prefixLength, prefix, options))

\* IAAddr.Bytes
IAAddrBytes(i, order, impl) ==
    Copy16(i.IP) \o PutUint32(i.PreferredLifetime) \o PutUint32(i.ValidLifetime)
        \o write(enumerate(i.Options, order, impl))

\* IAPrefix.Bytes
IAPrefixBytes(i, order, impl) ==
    PutUint32(i.PreferredLifetime) \o PutUint32(i.ValidLifetime) \o <<i.PrefixLength>>
        \o Copy16(i.Prefix) \o write(enumerate(i.Options, order, impl))

\* parseIAAddr without the comparison of the lifetimes
parseIAAddrUnchecked(b) ==
    IF Len(b) < 24 THEN Failed("errInvalidIAAddr")
    ELSE Returned(IAAddr(SubSeq(b, 1, 16), BEUint32(SubSeq(b, 17, 20)),
                         BEUint32(SubSeq(b, 21, 24)),
                         optionsMap(parseOptions(Drop(b, 24)), EmptyOptions)))

\* parseIAAddr
parseIAAddr(b) ==
    IF Len(b) < 24 THEN Failed("errInvalidIAAddr")
    ELSE LET preferred == BEUint32(SubSeq(b, 17, 20))
             valid     == BEUint32(SubSeq(b, 21, 24))
         IN  IF preferred > valid THEN Failed("ErrInvalidIAAddrLifetimes")
             ELSE Returned(IAAddr(SubSeq(b, 1, 16), preferred, valid,
                                  optionsMap(parseOptions(Drop(b, 24)), EmptyOptions)))

\* parseIAPrefix
parseIAPrefix(b) ==
    IF Len(b) < 25 THEN Failed("errInvalidIAPrefix")
    ELSE LET preferred == BEUint32(SubSeq(b, 1, 4))
             valid     == BEUint32(SubSeq(b, 5, 8))
             options   == Unmarshal(Drop(b, 25))
         IN  IF preferred > valid THEN Failed("ErrInvalidLifetimes")
             ELSE IF options.err # Nil THEN Failed(options.err)
             ELSE Returned(IAPrefix(preferred, valid, b[9], SubSeq(b, 10, 25), options.opts))

\* the largest lifetime, in whole seconds, that the constructors and the wire
\* carry; time.Duration is a signed integer, so the constructors are also
\* given the negative lifetime -1
MaxLifetime == 2

\* what follows the fixed part of an IAAddr or IAPrefix on the wire: nothing,
\* one whole option, or a truncated option
IATails == {<<>>, <<0, 7, 0, 1, 255>>, <<0>>}

\* byte strings in the layout of an IAAddr and of an IAPrefix, and every
\* prefix of them
IAWire ==
    LET full == {Copy16(IPv6Addr) \o PutUint32(p) \o PutUint32(v) \o t :
                     p \in 0..MaxLifetime, v \in 0..MaxLifetime, t \in IATails}
                \cup
                {PutUint32(p) \o PutUint32(v) \o <<64>> \o Copy16(IPv6Addr) \o t :
                     p \in 0..MaxLifetime, v \in 0..MaxLifetime, t \in IATails}
    IN  UNION {{Take(b, n) : n \in 0..Len(b)} : b \in full}

\* the result r of calling op on input in
Call(op, in, r) == [done |-> TRUE, err |-> r.err, v |-> r.v, op |-> op, in |-> in]

InitIA ==
    /\ CodecIdle
    /\ ServerIdle
    /\ TypesIdle

\* NewIAAddr(ip, preferred, valid, nil)
IANewIAAddr ==
    /\ \E ip \in IPs, preferred \in -1..MaxLifetime, valid \in -1..MaxLifetime :
           LET r == NewIAAddr(ip, preferred, valid, EmptyOptions)
           IN  /\ decoded' = Call("NewIAAddr",
                                  [ip |-> ip, preferred |-> preferred, valid |-> valid], r)
               /\ val' = r.v
    /\ encoded' = NoEncoded
    /\ UNCHANGED <<codecVars, serverVars>>

\* NewIAPrefix(preferred, valid, 64, prefix, nil)
IANewIAPrefix ==
    /\ \E prefix \in IPs, preferred \in -1..MaxLifetime, valid \in -1..MaxLifetime :
           LET r == NewIAPrefix(preferred, valid, 64, prefix, EmptyOptions)
           IN  /\ decoded' = Call("NewIAPrefix",
                                  [ip |-> prefix, preferred |-> preferred, valid |-> valid], r)
               /\ val' = r.v
    /\ encoded' = NoEncoded
    /\ UNCHANGED <<codecVars, serverVars>>

\* i.PreferredLifetime = d or i.ValidLifetime = d: the fields are exported
IASetLifetime ==
    /\ val.kind \in {"IAAddr", "IAPrefix"}
    /\ \E d \in 0..MaxLifetime :
           \/ val' = [val EXCEPT !.PreferredLifetime = d]
           \/ val' = [val EXCEPT !.ValidLifetime = d]
    /\ encoded' = NoEncoded
    /\ decoded' = NotDecoded
    /\ UNCHANGED <<codecVars, serverVars>>

\* i.Bytes()
IABytes ==
    /\ val.kind \in {"IAAddr", "IAPrefix"}
    /\ \E order \in MapOrders(Keys(val.Options)) :
           encoded' = [has |-> TRUE,
                       b |-> IF val.kind = "IAAddr" THEN IAAddrBytes(val, order, goSort)
                             ELSE IAPrefixBytes(val, order, goSort),
                       from |-> "Bytes"]
    /\ decoded' = NotDecoded
    /\ UNCHANGED <<val, codecVars, serverVars>>

\* bytes arrive from the wire
IAReceive ==
    /\ \E b \in IAWire : encoded' = [has |-> TRUE, b |-> b, from |-> "wire"]
    /\ val' = NoValue
    /\ decoded' = NotDecoded
    /\ UNCHANGED <<codecVars, serverVars>>

\* parseIAAddr(b)
IAParseIAAddr ==
    /\ encoded.from = "wire"
    /\ ~decoded.done
    /\ decoded' = Call("parseIAAddr", encoded.b, parseIAAddr(encoded.b))
    /\ UNCHANGED <<val, encoded, codecVars, serverVars>>

\* parseIAPrefix(b)
IAParseIAPrefix ==
    /\ encoded.from = "wire"
    /\ ~decoded.done
    /\ decoded' = Call("parseIAPrefix", encoded.b, parseIAPrefix(encoded.b))
    /\ UNCHANGED <<val, encoded, codecVars, serverVars>>

NextIA ==
    \/ IANewIAAddr
    \/ IANewIAPrefix
    \/ IASetLifetime
    \/ IABytes
    \/ IAReceive
    \/ IAParseIAAddr
    \/ IAParseIAPrefix

SpecIA == InitIA /\ [][NextIA]_vars

\* the lifetimes an operation was given: the arguments of a constructor, the
\* two 32-bit fields of a parser's input when the input holds both
GivenLifetimes ==
    IF decoded.op \in {"NewIAAddr", "NewIAPrefix"}
    THEN [has |-> TRUE, preferred |-> decoded.in.preferred, valid |-> decoded.in.valid]
    ELSE IF decoded.op = "parseIAAddr"
    THEN IF Len(decoded.in) >= 24
         THEN [has |-> TRUE, preferred |-> BEUint32(SubSeq(decoded.in, 17, 20)),
               valid |-> BEUint32(SubSeq(decoded.in, 21, 24))]
         ELSE [has |-> FALSE]
    ELSE IF Len(decoded.in) >= 8
         THEN [has |-> TRUE, preferred |-> BEUint32(SubSeq(decoded.in, 1, 4)),
               valid |-> BEUint32(SubSeq(decoded.in, 5, 8))]
         ELSE [has |-> FALSE]

PreferredExceedsValid ==
    /\ decoded.done
    /\ GivenLifetimes.has
    /\ GivenLifetimes.preferred > GivenLifetimes.valid

InvalidLifetimes == {"ErrInvalidLifetimes", "ErrInvalidIAAddrLifetimes"}

\* the input has no other defect: the address is an IPv6 address, the bytes
\* are at least as long as the fixed part
OtherwiseValid ==
    IF decoded.op \in {"NewIAAddr", "NewIAPrefix"} THEN ~IsIPv4(decoded.in.ip)
    ELSE IF decoded.op = "parseIAAddr" THEN Len(decoded.in) >= 24
    ELSE Len(decoded.in) >= 25

C18_BytesPreferredAtMostValid ==
    (encoded.from = "Bytes") =>
        LET off == IF val.kind = "IAAddr" THEN 16 ELSE 0
            preferred == SubSeq(encoded.b, off + 1, off + 4)
            valid     == SubSeq(encoded.b, off + 5, off + 8)
        IN  \A i \in 1..4 :
                (\A j \in 1..(i - 1) : preferred[j] = valid[j]) => preferred[i] <= valid[i]

(***************************************************************************)
(* SpecDUID: the DUID variants, their Bytes and parseDUID                  *)
(***************************************************************************)
\* the clock of the model ticks this many times a second (time.Duration
\* counts nanoseconds); a DUIDLLT's Time is a number of ticks
TicksPerSecond == 2

\* the latest time handed to NewDUIDLLT, in ticks after duidLLTTime
MaxDUIDTime == 5

HardwareTypes == {ethernet10Mb, 6}

HardwareAddrs == {<<>>, <<0, 1>>, HardwareAddr}

EnterpriseNumbers == {0, 9}

Identifiers == {<<>>, <<1>>, <<0, 1, 2>>}

UUIDs == {[i \in 1..16 |-> (i + 3) \div 4], [i \in 1..16 |-> 0]}

\* NewDUIDLLT; t is the time in ticks after duidLLTTime, negative if before
NewDUIDLLT(hardwareType, t, hardwareAddr) ==
    IF t < 0 THEN Failed("ErrInvalidDUIDLLTTime")
    ELSE Returned([Type |-> DUIDTypeLLT, HardwareType |-> hardwareType, Time |-> t,
                   HardwareAddr |-> hardwareAddr])

\* NewDUIDEN
NewDUIDEN(enterpriseNumber, identifier) ==
    [Type |-> DUIDTypeEN, EnterpriseNumber |-> enterpriseNumber, Identifier |-> identifier]

\* &DUIDUUID{Type: DUIDTypeUUID, UUID: uuid}
DUIDUUID(uuid) == [Type |-> DUIDTypeUUID, UUID |-> uuid]

\* DUIDLLT.Bytes
DUIDLLTBytes(d) ==
    Write16(d.Type) \o Write16(d.HardwareType) \o PutUint32(d.Time \div TicksPerSecond)
        \o d.HardwareAddr

\* DUIDEN.Bytes
DUIDENBytes(d) == Write16(d.Type) \o PutUint32(d.EnterpriseNumber) \o d.Identifier

\* DUIDLL.Bytes
DUIDLLBytes(d) == Write16(d.Type) \o Write16(d.HardwareType) \o d.HardwareAddr

\* DUIDUUID.Bytes
DUIDUUIDBytes(d) == Write16(d.Type) \o d.UUID

\* d.Bytes() through the DUID interface; the constructors set Type to the
\* variant's tag, so the tag tells the variant
DUIDBytes(d) ==
    CASE d.Type = DUIDTypeLLT -> DUIDLLTBytes(d)
      [] d.Type = DUIDTypeEN -> DUIDENBytes(d)
      [] d.Type = DUIDTypeLL -> DUIDLLBytes(d)
      [] OTHER -> DUIDUUIDBytes(d)

\* parseDUIDLLT
parseDUIDLLT(b) ==
    IF Len(b) < 8 THEN Failed("errInvalidDUIDLLT")
    ELSE IF Uint16(b) # DUIDTypeLLT THEN Failed("errInvalidDUIDLLT")
    ELSE Returned([Type |-> Uint16(b), HardwareType |-> Uint16(SubSeq(b, 3, 4)),
                   Time |-> BEUint32(SubSeq(b, 5, 8)) * TicksPerSecond,
                   HardwareAddr |-> Drop(b, 8)])

\* parseDUIDEN
parseDUIDEN(b) ==
    IF Len(b) < 6 THEN Failed("errInvalidDUIDEN")
    ELSE IF Uint16(b) # DUIDTypeEN THEN Failed("errInvalidDUIDEN")
    ELSE Returned([Type |-> Uint16(b), EnterpriseNumber |-> BEUint32(SubSeq(b, 3, 6)),
                   Identifier |-> Drop(b, 6)])

\* parseDUIDLL
parseDUIDLL(b) ==
    IF Len(b) < 4 THEN Failed("errInvalidDUIDLL")
    ELSE IF Uint16(b) # DUIDTypeLL THEN Failed("errInvalidDUIDLL")
    ELSE Returned([Type |-> Uint16(b), HardwareType |-> Uint16(SubSeq(b, 3, 4)),
                   HardwareAddr |-> Drop(b, 4)])

\* parseDUID
parseDUID(d) ==
    IF Len(d) < 2 THEN Failed("errInvalidDUID")
    ELSE CASE Uint16(d) = DUIDTypeLLT -> parseDUIDLLT(d)
           [] Uint16(d) = DUIDTypeEN -> parseDUIDEN(d)
           [] Uint16(d) = DUIDTypeLL -> parseDUIDLL(d)
           [] OTHER -> Failed("errUnknownDUID")

InitDUID ==
    /\ CodecIdle
    /\ ServerIdle
    /\ TypesIdle

\* NewDUIDLLT(hardwareType, time, hardwareAddr)
DUIDNewLLT ==
    /\ \E ht \in HardwareTypes, t \in -1..MaxDUIDTime, hw \in HardwareAddrs :
           LET r == NewDUIDLLT(ht, t, hw)
           IN  /\ decoded' = Call("NewDUIDLLT", t, r)
               /\ val' = r.v
    /\ encoded' = NoEncoded
    /\ UNCHANGED <<codecVars, serverVars>>

\* NewDUIDEN(enterpriseNumber, identifier)
DUIDNewEN ==
    /\ \E en \in EnterpriseNumbers, id \in Identifiers : val' = NewDUIDEN(en, id)
    /\ encoded' = NoEncoded
    /\ decoded' = NotDecoded
    /\ UNCHANGED <<codecVars, serverVars>>

\* NewDUIDLL(hardwareType, hardwareAddr)
DUIDNewLL ==
    /\ \E ht \in HardwareTypes, hw \in HardwareAddrs : val' = NewDUIDLL(ht, hw)
    /\ encoded' = NoEncoded
    /\ decoded' = NotDecoded
    /\ UNCHANGED <<codecVars, serverVars>>

\* &DUIDUUID{Type: DUIDTypeUUID, UUID: uuid}
DUIDNewUUID ==
    /\ \E uuid \in UUIDs : val' = DUIDUUID(uuid)
    /\ encoded' = NoEncoded
    /\ decoded' = NotDecoded
    /\ UNCHANGED <<codecVars, serverVars>>

\* d.Bytes()
DUIDMarshal ==
    /\ val # NoValue
    /\ ~encoded.has
    /\ encoded' = [has |-> TRUE, b |-> DUIDBytes(val), from |-> "Bytes"]
    /\ decoded' = NotDecoded
    /\ UNCHANGED <<val, codecVars, serverVars>>

\* parseDUID(b)
DUIDParse ==
    /\ encoded.has
    /\ ~decoded.done
    /\ decoded' = Call("parseDUID", encoded.b, parseDUID(encoded.b))
    /\ UNCHANGED <<val, encoded, codecVars, serverVars>>

NextDUID ==
    \/ DUIDNewLLT
    \/ DUIDNewEN
    \/ DUIDNewLL
    \/ DUIDNewUUID
    \/ DUIDMarshal
    \/ DUIDParse

SpecDUID == InitDUID /\ [][NextDUID]_vars

\* C19: for a DUID X of any of the four variants (LLT, EN, LL, UUID),
\* parsing the bytes X.Bytes() produced yields a DUID of the same variant
\* equal to X.
C19_DUIDRoundTrip ==
    (decoded.done /\ decoded.op = "parseDUID") =>
        /\ decoded.err = Nil
        /\ decoded.v = val

(***************************************************************************)
(* SpecOptionTypes: the unmarshallers of the option types, applied to      *)
(* inputs around each type's minimum length                                *)
(***************************************************************************)
\* how many bytes beyond a type's minimum length an input may have
MaxExtra == 1

OptionTypes ==
    {"IANA", "RemoteIdentifier", "IAPD", "IAAddr", "IAPrefix",
     "Preference", "ElapsedTime", "NII", "IP", "ArchTypes"}

\* the least len(b) each unmarshaller lets through its length test
MinLen(T) ==
    CASE T = "IANA" -> 12
      [] T = "RemoteIdentifier" -> 5
      [] T = "IAPD" -> 12
      [] T = "IAAddr" -> 24
      [] T = "IAPrefix" -> 25
      [] T = "Preference" -> 1
      [] T = "ElapsedTime" -> 2
      [] T = "NII" -> 3
      [] T = "IP" -> 16
      [] T = "ArchTypes" -> 2

\* parseIANA
parseIANA(b) ==
    IF Len(b) < 12 THEN Failed("errInvalidIANA")
    ELSE Returned([kind |-> "IANA", iana |-> Take(b, 12),
                   options |-> optionsMap(parseOptions(Drop(b, 12)), EmptyOptions)])

\* RemoteIdentifier.UnmarshalBinary
RemoteIdentifierUnmarshalBinary(b) ==
    IF Len(b) < 5 THEN Failed("io.ErrUnexpectedEOF")
    ELSE Returned([kind |-> "RemoteIdentifier", EnterpriseNumber |-> BEUint32(Take(b, 4)),
                   RemoteID |-> Drop(b, 4)])

\* IAPD.UnmarshalBinary
IAPDUnmarshalBinary(b) ==
    IF Len(b) < 12 THEN Failed("io.ErrUnexpectedEOF")
    ELSE LET options == Unmarshal(Drop(b, 12))
         IN  IF options.err # Nil THEN Failed(options.err)
             ELSE Returned([kind |-> "IAPD", IAID |-> Take(b, 4),
                            T1 |-> BEUint32(SubSeq(b, 5, 8)),
                            T2 |-> BEUint32(SubSeq(b, 9, 12)), Options |-> options.opts])

\* Preference.UnmarshalBinary
PreferenceUnmarshalBinary(b) ==
    IF Len(b) # 1 THEN Failed("io.ErrUnexpectedEOF")
    ELSE Returned([kind |-> "Preference", p |-> b[1]])

\* ElapsedTime.UnmarshalBinary; the value is in milliseconds
ElapsedTimeUnmarshalBinary(b) ==
    IF Len(b) # 2 THEN Failed("io.ErrUnexpectedEOF")
    ELSE Returned([kind |-> "ElapsedTime", t |-> Uint16(b) * 10])

\* NII.UnmarshalBinary
NIIUnmarshalBinary(b) ==
    IF Len(b) # 3 THEN Failed("io.ErrUnexpectedEOF")
    ELSE Returned([kind |-> "NII", Type |-> b[1], Major |-> b[2], Minor |-> b[3]])

\* IP.UnmarshalBinary
IPUnmarshalBinary(b) ==
    IF Len(b) # 16 THEN Failed("io.ErrUnexpectedEOF")
    ELSE IF IsIPv4(b) THEN Failed("io.ErrUnexpectedEOF")
    ELSE Returned([kind |-> "IP", ip |-> b])

\* ArchTypes.UnmarshalBinary
ArchTypesUnmarshalBinary(b) ==
    IF Len(b) < 2 \/ Len(b) % 2 # 0 THEN Failed("io.ErrUnexpectedEOF")
    ELSE Returned([kind |-> "ArchTypes",
                   arch |-> [j \in 1..(Len(b) \div 2) |-> Uint16(SubSeq(b, 2 * j - 1, 2 * j))]])

\* n bytes x
Fill(n, x) == [i \in 1..n |-> x]

\* the inputs handed to the unmarshaller of T: n equal bytes, or n zero
\* bytes with a single 1 among them, for every n from one byte less than
\* the minimum length to MaxExtra bytes more
OptionInputs(T) ==
    UNION {{Fill(n, x) : x \in InputBytes}
           \cup {[Fill(n, 0) EXCEPT ![k] = 1] : k \in 1..n} :
               n \in (MinLen(T) - 1)..(MinLen(T) + MaxExtra)}

InitOptionTypes ==
    /\ CodecIdle
    /\ ServerIdle
    /\ TypesIdle

\* the data of an option of type T arrives
OTReceive ==
    /\ \E T \in OptionTypes : \E b \in OptionInputs(T) :
           encoded' = [has |-> TRUE, b |-> b, from |-> "wire", as |-> T]
    /\ decoded' = NotDecoded
    /\ UNCHANGED <<val, codecVars, serverVars>>

\* the unmarshaller of T is applied to the data and returns r
OTUnmarshal(T, r) ==
    /\ encoded.has
    /\ encoded.as = T
    /\ ~decoded.done
    /\ decoded' = Call(T, encoded.b, r)
    /\ UNCHANGED <<val, encoded, codecVars, serverVars>>

OTIANA == OTUnmarshal("IANA", parseIANA(encoded.b))

OTRemoteIdentifier ==
    OTUnmarshal("RemoteIdentifier", RemoteIdentifierUnmarshalBinary(encoded.b))

OTIAPD == OTUnmarshal("IAPD", IAPDUnmarshalBinary(encoded.b))

OTIAAddr == OTUnmarshal("IAAddr", parseIAAddr(encoded.b))

OTIAPrefix == OTUnmarshal("IAPrefix", parseIAPrefix(encoded.b))

OTPreference == OTUnmarshal("Preference", PreferenceUnmarshalBinary(encoded.b))

OTElapsedTime == OTUnmarshal("ElapsedTime", ElapsedTimeUnmarshalBinary(encoded.b))

OTNII == OTUnmarshal("NII", NIIUnmarshalBinary(encoded.b))

OTIP == OTUnmarshal("IP", IPUnmarshalBinary(encoded.b))

OTArchTypes == OTUnmarshal("ArchTypes", ArchTypesUnmarshalBinary(encoded.b))

NextOptionTypes ==
    \/ OTReceive
    \/ OTIANA
    \/ OTRemoteIdentifier
    \/ OTIAPD
    \/ OTIAAddr
    \/ OTIAPrefix
    \/ OTPreference
    \/ OTElapsedTime
    \/ OTNII
    \/ OTIP
    \/ OTArchTypes

SpecOptionTypes == InitOptionTypes /\ [][NextOptionTypes]_vars

\* C20: for every option type, unmarshalling an input of exactly the
\* type's minimum valid length succeeds, and unmarshalling an input one
\* byte shorter fails with UnexpectedEof.
C20_LengthBoundary ==
    decoded.done =>
        /\ Len(decoded.in) = MinLen(decoded.op) => decoded.err = Nil
        /\ Len(decoded.in) = MinLen(decoded.op) - 1 => decoded.err = "io.ErrUnexpectedEOF"

(***************************************************************************)
(* SpecNewPacket: NewPacket called directly, and through Recorder.Send     *)
(***************************************************************************)
\* the longest transaction ID handed to NewPacket and NewRecorder
MaxTxIDLen == 4

\* the most options a Recorder is given before it sends
MaxRecOpts == 1

\* dhcp6test.NewRecorder(txID)
NewRecorder(txID) ==
    [kind |-> "Recorder", TransactionID |-> txID, Options |-> EmptyOptions]

\* what NewPacket returned, as a constructor result
PacketResult(r) == IF r.err # Nil THEN Failed(r.err) ELSE Returned([kind |-> "Packet", p |-> r.p])

InitNewPacket ==
    /\ CodecIdle
    /\ ServerIdle
    /\ TypesIdle

\* NewPacket(mt, txID, options)
NPNewPacket ==
    /\ val = NoValue
    /\ ~decoded.done
    /\ \E mt \in {MessageTypeSolicit, MessageTypeAdvertise},
          txID \in SeqsUpTo(InputBytes, MaxTxIDLen),
          options \in {EmptyOptions} \cup {AddRaw(EmptyOptions, key, <<7>>) : key \in Codes} :
           \E order \in MapOrders(Keys(options)) :
               decoded' = Call("NewPacket", [mt |-> mt, txID |-> txID],
                               PacketResult(NewPacket(mt, txID, options, order, goSort)))
    /\ UNCHANGED <<val, encoded, codecVars, serverVars>>

\* r := NewRecorder(txID)
NPNewRecorder ==
    /\ val = NoValue
    /\ ~decoded.done
    /\ \E txID \in SeqsUpTo(InputBytes, MaxTxIDLen) : val' = NewRecorder(txID)
    /\ UNCHANGED <<encoded, decoded, codecVars, serverVars>>

\* r.Options().AddRaw(key, value)
NPRecorderAddRaw ==
    /\ val.kind = "Recorder"
    /\ ~decoded.done
    /\ CountValues(val.Options) < MaxRecOpts
    /\ \E key \in Codes, value \in Values :
           val' = [val EXCEPT !.Options = AddRaw(@, key, value)]
    /\ UNCHANGED <<encoded, decoded, codecVars, serverVars>>

\* r.Send(mt)
NPRecorderSend ==
    /\ val.kind = "Recorder"
    /\ ~decoded.done
    /\ \E mt \in {MessageTypeSolicit, MessageTypeAdvertise},
          order \in MapOrders(Keys(val.Options)) :
           decoded' = Call("Send", [mt |-> mt, txID |-> val.TransactionID],
                           PacketResult(NewPacket(mt, val.TransactionID, val.Options,
                                                  order, goSort)))
    /\ UNCHANGED <<val, encoded, codecVars, serverVars>>

NextNewPacket ==
    \/ NPNewPacket
    \/ NPNewRecorder
    \/ NPRecorderAddRaw
    \/ NPRecorderSend

SpecNewPacket == InitNewPacket /\ [][NextNewPacket]_vars

\* C21: building a packet, directly or through a response's send, with a
\* transaction ID that is not exactly 3 bytes long fails with
\* InvalidTransactionID and yields no packet; with exactly 3 bytes it
\* succeeds, and the packet carries the message type and the transaction ID.
C21_TransactionIDLength ==
    decoded.done =>
        IF Len(decoded.in.txID) = 3
        THEN /\ decoded.err = Nil
             /\ decoded.v.kind = "Packet"
             /\ Take(decoded.v.p, 4) = <<decoded.in.mt>> \o decoded.in.txID
        ELSE /\ decoded.err = "ErrInvalidTransactionID"
             /\ decoded.v = NoValue

C21_Witness ==
    /\ decoded.done
    /\ decoded.op = "Send"
    /\ Len(decoded.in.txID) = 4
    /\ decoded.err = "ErrInvalidTransactionID"

(***************************************************************************)
(* SpecClient: the client's Solicit, with MulticastPacket and ReadPacket   *)
(***************************************************************************)
\* the largest retry count a Client is created with (-1 is the least)
MaxRetry == 2

\* the longest timeout a Client is created with, in clock ticks
MaxTimeout == 2

\* the clock is followed up to this many ticks after ReadPacket's start;
\* later times are not told apart
MaxElapsed == 4

\* the loop counter and the count of packets sent are followed up to this
\* value; larger values are not told apart
MaxCount == 3

\* datagrams the client may receive: an Advertise, and one too short to be
\* a packet
Replies == {<<MessageTypeAdvertise, 1, 2, 3>>, <<MessageTypeAdvertise>>}

\* client.New(haddr, t, r), before Solicit is called.  pc is the position of
\* Solicit, i its loop counter, packet its variable of that name, multicasts
\* the number of Solicit packets sent, elapsed the time since ReadPacket
\* took its start time
Client(t, r) ==
    [kind |-> "Client", timeout |-> t, retry |-> r, pc |-> "idle", i |-> 0,
     packet |-> NoValue, multicasts |-> 0, elapsed |-> 0]

InitClient ==
    /\ CodecIdle
    /\ ServerIdle
    /\ val \in {Client(t, r) : t \in 0..MaxTimeout, r \in -1..MaxRetry}
    /\ encoded = NoEncoded
    /\ decoded = NotDecoded

\* remainingTime <= 0, with remainingTime := deadline.Sub(start) and
\* deadline := time.Now().Add(c.timeout)
TimedOut(c) == c.elapsed + c.timeout <= 0

\* the loop condition of Solicit
Retrying(c) == c.i < c.retry \/ c.retry < 0

\* Solicit is called: newSolicitPacket
CliSolicit ==
    /\ val.pc = "idle"
    /\ \/ /\ val' = [val EXCEPT !.pc = "loop"]
          /\ UNCHANGED decoded
       \/ /\ val' = [val EXCEPT !.pc = "returned"]
          /\ decoded' = Failed("new solicit packet")
    /\ UNCHANGED <<encoded, codecVars, serverVars>>

\* the loop condition holds: c.MulticastPacket(solicitPacket), then
\* ReadPacket is entered and takes its start time
CliMulticast ==
    /\ val.pc = "loop"
    /\ Retrying(val)
    /\ \/ /\ val' = [val EXCEPT !.pc = "read", !.elapsed = 0,
                                  !.multicasts = Min(@ + 1, MaxCount)]
          /\ UNCHANGED decoded
       \/ /\ val' = [val EXCEPT !.pc = "returned"]
          /\ decoded' = Failed("sending solicit packet failed")
    /\ UNCHANGED <<encoded, codecVars, serverVars>>

\* the loop condition fails: return packet, nil
CliLoopEnds ==
    /\ val.pc = "loop"
    /\ ~Retrying(val)
    /\ val' = [val EXCEPT !.pc = "returned"]
    /\ decoded' = Returned(val.packet)
    /\ UNCHANGED <<encoded, codecVars, serverVars>>

\* ReadPacket finds remainingTime <= 0 and returns its error; Solicit
\* assigns packet, err and goes round its loop
CliReadTimedOut ==
    /\ val.pc = "read"
    /\ TimedOut(val)
    /\ val' = [val EXCEPT !.pc = "loop", !.packet = NoValue, !.i = Min(@ + 1, MaxCount)]
    /\ UNCHANGED <<encoded, decoded, codecVars, serverVars>>

\* remainingTime > 0: SetReadDeadline(deadline), and ReadFrom is called
CliSetReadDeadline ==
    /\ val.pc = "read"
    /\ ~TimedOut(val)
    /\ val' = [val EXCEPT !.pc = "readfrom"]
    /\ UNCHANGED <<encoded, decoded, codecVars, serverVars>>

\* ReadFrom fails when its deadline, one timeout after it was set, has
\* passed: continue
CliReadDeadline ==
    /\ val.pc = "readfrom"
    /\ val' = [val EXCEPT !.pc = "read", !.elapsed = Min(@ + val.timeout, MaxElapsed)]
    /\ UNCHANGED <<encoded, decoded, codecVars, serverVars>>

\* ReadFrom returns a datagram dt ticks after the deadline was set and
\* before it has passed; a datagram that is no packet is skipped, a packet
\* ends ReadPacket and the loop of Solicit, which returns packet, nil
CliReadDatagram ==
    /\ val.pc = "readfrom"
    /\ \E b \in Replies, dt \in 0..(val.timeout - 1) :
           LET r == parsePacket(b)
           IN  /\ encoded' = [has |-> TRUE, b |-> b, from |-> "wire"]
               /\ IF r.err # Nil
                  THEN /\ val' = [val EXCEPT !.pc = "read",
                                            !.elapsed = Min(@ + dt, MaxElapsed)]
                       /\ UNCHANGED decoded
                  ELSE /\ val' = [val EXCEPT !.pc = "returned", !.packet = r.v,
                                            !.elapsed = Min(@ + dt, MaxElapsed)]
                       /\ decoded' = Returned(r.v)
    /\ UNCHANGED <<codecVars, serverVars>>

NextClient ==
    \/ CliSolicit
    \/ CliMulticast
    \/ CliLoopEnds
    \/ CliReadTimedOut
    \/ CliSetReadDeadline
    \/ CliReadDeadline
    \/ CliReadDatagram

SpecClient == InitClient /\ [][NextClient]_vars

\* the client's own steps are taken when they can be: Solicit and
\* ReadPacket run in a goroutine that is scheduled, and a read with a
\* deadline returns when the deadline has passed
SpecClientFair ==
    /\ SpecClient
    /\ WF_vars(CliSolicit)
    /\ WF_vars(CliMulticast)
    /\ WF_vars(CliLoopEnds)
    /\ WF_vars(CliReadTimedOut)
    /\ WF_vars(CliSetReadDeadline)
    /\ WF_vars(CliReadDeadline)

\* C25: with a retry count r >= 0, Solicit multicasts at most r Solicit
\* packets and then returns.
C25_BoundedRetries ==
    /\ [](val.retry >= 0 => val.multicasts <= val.retry)
    /\ (val.retry >= 0) => <>(val.pc = "returned")

\* C26: ReadPacket returns no later than one timeout after it was called:
\* while Solicit is inside ReadPacket, no more than the timeout has elapsed
\* since ReadPacket took its start time.
C26_ReadPacketTimeout ==
    val.pc \in {"read", "readfrom"} => val.elapsed <= val.timeout

\* C27: Solicit never returns a nil packet together with a nil error.
C27_NeverNilNil ==
    (val.pc = "returned") => ~(decoded.err = Nil /\ decoded.v = NoValue)

(***************************************************************************)
(* SpecLength: the length field of marshalled options, for values short    *)
(* and long                                                                *)
(***************************************************************************)
\* the number of values of a uint16, the type of the length field
Uint16Values == 65536

\* the longest of the short option values
MaxShortLen == 1

\* how many bytes longer than 65535 bytes the long option values get
MaxOverLen == 1

\* the number of values the options hold at most
MaxLongOpts == 2

\* the lengths of the option values added: short ones, and the ones around
\* the largest number a uint16 holds
DataLens == (0..MaxShortLen) \cup ((Uint16Values - 1)..(Uint16Values - 1 + MaxOverLen))

InitLength ==
    /\ CodecIdle
    /\ ServerIdle
    /\ val = EmptyOptions
    /\ encoded = NoEncoded
    /\ decoded = NotDecoded

\* o.AddRaw(key, value) with a value of n zero bytes; what was marshalled
\* before is dropped
LenAddRaw ==
    /\ CountValues(val) < MaxLongOpts
    /\ \E key \in Codes, n \in DataLens : val' = AddRaw(val, key, Fill(n, 0))
    /\ encoded' = NoEncoded
    /\ UNCHANGED <<decoded, codecVars, serverVars>>

\* o.enumerate().marshal(b): as is kept the order the range over the map took
LenMarshal ==
    /\ \E order \in MapOrders(Keys(val)) :
           LET os == enumerate(val, order, goSort)
           IN  encoded' = [has |-> TRUE, b |-> marshal(os), from |-> "marshal", as |-> order]
    /\ UNCHANGED <<val, decoded, codecVars, serverVars>>

\* o.enumerate().write(p), with p of o.count() bytes
LenWrite ==
    /\ \E order \in MapOrders(Keys(val)) :
           LET os == enumerate(val, order, goSort)
           IN  encoded' = [has |-> TRUE, b |-> write(os), from |-> "write", as |-> order]
    /\ UNCHANGED <<val, decoded, codecVars, serverVars>>

NextLength ==
    \/ LenAddRaw
    \/ LenMarshal
    \/ LenWrite

SpecLength == InitLength /\ [][NextLength]_vars

\* in the records b, written for the options os, every length field is the
\* number of data bytes of its option, the next record starting after them
RECURSIVE LengthFieldsExact(_, _)
LengthFieldsExact(b, os) ==
    IF os = <<>> THEN b = <<>>
    ELSE /\ Len(b) >= 4 + Len(Head(os).Data)
         /\ Uint16(Drop(b, 2)) = Len(Head(os).Data)
         /\ LengthFieldsExact(Drop(b, 4 + Len(Head(os).Data)), Tail(os))

\* C30: in every option record that marshal and write emit, the 16-bit
\* length field equals the number of data bytes that follow it, for option
\* values of any length.
C30_LengthFieldExact ==
    encoded.has => LengthFieldsExact(encoded.b, enumerate(val, encoded.as, goSort))

====
